---- MODULE Spec2Model ----
(***************************************************************************)
(* Order lifecycle of the DesiEats backend: place-order pricing and        *)
(* validation (routes/orders.js), the single and bulk status updates       *)
(* (routes/orders.js, routes/restaurants.js) and the payment result        *)
(* routes (routes/payment.js) over the Order documents (models/Order.js).  *)
(*                                                                         *)
(* Money is counted in tenths of a rupee (1005 is 100.5), so that prices   *)
(* and fees that are not whole numbers are values of the model.  Time is   *)
(* counted in minutes.  An optional (possibly undefined) value is a        *)
(* sequence of length 0 or 1.  A text is a sequence of words, the empty    *)
(* string being the empty sequence.                                        *)
(*                                                                         *)
(* A handler is a pair: the response it sends, an operator of the store    *)
(* and the request, and the action that changes the store when that        *)
(* response is a success.                                                  *)
(***************************************************************************)
EXTENDS Integers, Sequences, FiniteSets, TLC

VARIABLES now, restaurants, menuItems, orders, inflight, sockets

vars == <<now, restaurants, menuItems, orders, inflight, sockets>>

(***************************************************************************)
(* Bounds of the model.                                                    *)
(***************************************************************************)
\* the clock takes the values 1..MaxClock
MaxClock == 2
\* total number of tracking entries in the store (each order has >= 1)
MaxEntries == 3
\* longest cart of a place-order request
MaxCart == 2
\* number of catalog fields that differ from the starting catalog
MaxChanges == 1
\* number of requests between two of their steps
MaxInflight == 2

(***************************************************************************)
(* Optional values and JavaScript truthiness.                              *)
(***************************************************************************)
None == <<>>

Some(v) == <<v>>

\* !v for an optional number: undefined and 0 are falsy
FalsyNum(v) == v = None \/ v[1] = 0

\* the empty string
EmptyText == <<>>

\* !v for an optional text: undefined and "" are falsy
FalsyStr(v) == v = None \/ v[1] = EmptyText

\* a || b for an optional number a and a number b
OrNum(a, b) == IF FalsyNum(a) THEN b ELSE a[1]

\* a || b for an optional text a and a text b
OrStr(a, b) == IF FalsyStr(a) THEN b ELSE a[1]

(***************************************************************************)
(* Users, as the authentication layer attaches them to a request.          *)
(***************************************************************************)
Users == {"cust1", "owner1", "owner2"}

Role(u) ==
    IF u \in {"cust1", "cust2"} THEN "customer"
    ELSE IF u = "admin1" THEN "admin"
    ELSE "restaurant"

\* authorize(...roles): the request passes when the user's role is listed
Authorize(u, roles) == Role(u) \in roles

(***************************************************************************)
(* Status enumeration of the Order schema, and the statuses the single     *)
(* status route accepts.                                                   *)
(***************************************************************************)
StatusEnum ==
    {"placed", "confirmed", "preparing", "ready", "picked-up",
     "out-for-delivery", "delivered", "cancelled", "refunded"}

validStatuses ==
    {"confirmed", "preparing", "ready", "picked-up", "out-for-delivery",
     "delivered", "cancelled"}

TerminalStatuses == {"delivered", "cancelled", "refunded"}

\* status strings a request may carry: the enumeration and a foreign string
StatusInputs == StatusEnum \cup {"bogus"}

\* a few of them: a status the single route refuses, an ordinary one and the
\* one that records the delivery time
FewStatusInputs == {"placed", "confirmed", "delivered"}

\* default message of the single status route: `Order ${status}`
OrderMsg(status) == <<"Order", status>>

\* default message of the bulk route: `Bulk updated to ${status}`
BulkMsg(status) == <<"Bulk updated to", status>>

\* message texts a request may carry: none, the empty string, a text
MessageInputs == {None, Some(EmptyText), Some(<<"note">>)}

(***************************************************************************)
(* Rounding.                                                               *)
(***************************************************************************)
\* Math.round(num / den) for num >= 0, den > 0: half rounds up
RoundDiv(num, den) == (2 * num + den) \div (2 * den)

\* Math.round of an amount in tenths, as an amount in tenths
MathRound(t) == 10 * RoundDiv(t, 10)

\* Math.round(itemsTotal * 0.05) of an amount in tenths, in tenths
Tax(t) == 10 * RoundDiv(5 * t, 1000)

(***************************************************************************)
(* Catalog: restaurants and menu items.                                    *)
(***************************************************************************)
RestaurantIds == {"r1", "r2"}

MenuIds == {"m1", "m2", "m3"}

\* restaurant ids a request may carry: missing, known, unknown
RestaurantIdInputs == {"", "r1", "r2", "rX"}

\* menu item ids a cart may carry: known and unknown
MenuIdInputs == MenuIds \cup {"mX"}

\* Restaurant.findById
FindRestaurant(id) == IF id \in RestaurantIds THEN Some(restaurants[id]) ELSE None

\* MenuItem.findById
FindMenuItem(id) == IF id \in MenuIds THEN Some(menuItems[id]) ELSE None

\* Restaurant.findOne({ userId })
RestaurantsOf(u) == {r \in RestaurantIds : restaurants[r].userId = u}

\* delivery fees a restaurant may have been given (30, 30.5)
FeeChoices == {300, 305}

InitRestaurants ==
    {[r \in RestaurantIds |->
        [userId |-> IF r = "r1" THEN "owner1" ELSE "owner2",
         isActive |-> TRUE,
         isAcceptingOrders |-> TRUE,
         minimumOrder |-> 1000,
         deliveryFee |-> IF r = "r1" THEN fee ELSE 300,
         estimatedDeliveryTime |-> 30]] : fee \in FeeChoices}

InitMenuItems ==
    [m \in MenuIds |->
        [restaurantId |-> IF m = "m3" THEN "r2" ELSE "r1",
         name |-> m,
         price |-> IF m = "m1" THEN 1000 ELSE IF m = "m2" THEN 604 ELSE 2000,
         discountedPrice |-> None,
         isAvailable |-> TRUE,
         preparationTime |-> 15]]

(***************************************************************************)
(* Responses: the HTTP status, the kind of error ("" on success) and the   *)
(* figures the body carries.                                               *)
(***************************************************************************)
Response(code, err) == [code |-> code, err |-> err, data |-> <<>>]

ResponseData(code, err, data) == [code |-> code, err |-> err, data |-> data]

Succeeded(response) == response.code < 400

\* what a write to the store does: it resolves, or it rejects and the
\* handler's catch block answers 500
Outcomes == {"ok", "error"}

\* Order.create: the schema requires orderNumber and only the pre('save')
\* hook sets it, so the document is stored when the hook takes effect before
\* the required check and is rejected otherwise
CreateOutcomes == Outcomes

(***************************************************************************)
(* Orders.  The store is the sequence of the Order documents in creation   *)
(* order; an order's _id is its index.                                     *)
(***************************************************************************)
OrderIds == 1..Len(orders)

\* order ids a request may carry: 0 stands for a missing id, then the
\* stored ones and an unknown one
OrderIdInputs == 0..(Len(orders) + 1)

\* Order.findById
FindOrder(id) == IF id \in OrderIds THEN Some(orders[id]) ELSE None

\* total number of tracking entries in the store
RECURSIVE SumTracking(_)
SumTracking(os) ==
    IF os = <<>> THEN 0 ELSE Len(Head(os).tracking) + SumTracking(Tail(os))

TotalEntries == SumTracking(orders)

\* OrderTrackingSchema
TrackingEntry(status, message, user, time) ==
    [status |-> status, message |-> message, updatedBy |-> user, timestamp |-> time]

\* OrderSchema.pre('save'): `DE${Date.now()}${count.toString().padStart(4, '0')}`
OrderNumber(time, count) == time * 10000 + count

\* order.save() on the loaded document of id: it resolves; when the stored
\* status is outside the schema enum (written by updateMany, which runs no
\* validators) and the handler does not overwrite it, its validation may
\* reject
SaveOutcomes(id) ==
    IF id \in OrderIds /\ orders[id].status \notin StatusEnum
    THEN Outcomes ELSE {"ok"}

(***************************************************************************)
(* Place order: router.post('/') of routes/orders.js.                      *)
(***************************************************************************)
Quantities == {0, 1, 2}

CartItems == [menuItem : MenuIdInputs, quantity : Quantities]

Carts == UNION {[1..n -> CartItems] : n \in 0..MaxCart}

\* carts of one item, in quantity 1
SmallCarts == {<<[menuItem |-> m, quantity |-> 1]>> : m \in MenuIds}

\* the address the handler fills in when the request carries none
DefaultAddress == <<"Test Street, Sector 15", "Sonipat", "Haryana", "131001">>

DefaultDeliveryFee == 300

DefaultPreparationTime == 15

DefaultDeliveryTime == 30

Max(a, b) == IF a >= b THEN a ELSE b

\* menuItem.discountedPrice || menuItem.price
ItemPrice(menuItem) == OrNum(menuItem.discountedPrice, menuItem.price)

EmptyAcc ==
    [code |-> 0, err |-> "", itemsTotal |-> 0, maxPreparationTime |-> 0,
     orderItems |-> <<>>]

\* the loop with the item's restaurant checked before its availability
RECURSIVE ProcessItemsRestaurantFirst(_, _, _, _)
ProcessItemsRestaurantFirst(items, restaurantId, i, acc) ==
    IF i > Len(items) THEN acc
    ELSE LET item == items[i]
             found == FindMenuItem(item.menuItem)
         IN  IF item.quantity < 1
             THEN [acc EXCEPT !.code = 400, !.err = "InvalidItem"]
             ELSE IF found = None
             THEN [acc EXCEPT !.code = 404, !.err = "MenuItemNotFound"]
             ELSE IF found[1].restaurantId # restaurantId
             THEN [acc EXCEPT !.code = 400, !.err = "ItemRestaurantMismatch"]
             ELSE IF ~found[1].isAvailable
             THEN [acc EXCEPT !.code = 400, !.err = "ItemUnavailable"]
             ELSE ProcessItemsRestaurantFirst(items, restaurantId, i + 1,
                    [acc EXCEPT
                       !.itemsTotal = @ + ItemPrice(found[1]) * item.quantity,
                       !.maxPreparationTime =
                           Max(@, OrNum(Some(found[1].preparationTime),
                                        DefaultPreparationTime)),
                       !.orderItems = Append(@,
                           [menuItem |-> item.menuItem,
                            name |-> found[1].name,
                            price |-> ItemPrice(found[1]),
                            quantity |-> item.quantity])])

\* the loop without the check of the item's restaurant
RECURSIVE ProcessItemsAnyRestaurant(_, _, _, _)
ProcessItemsAnyRestaurant(items, restaurantId, i, acc) ==
    IF i > Len(items) THEN acc
    ELSE LET item == items[i]
             found == FindMenuItem(item.menuItem)
         IN  IF item.quantity < 1
             THEN [acc EXCEPT !.code = 400, !.err = "InvalidItem"]
             ELSE IF found = None
             THEN [acc EXCEPT !.code = 404, !.err = "MenuItemNotFound"]
             ELSE IF ~found[1].isAvailable
             THEN [acc EXCEPT !.code = 400, !.err = "ItemUnavailable"]
             ELSE ProcessItemsAnyRestaurant(items, restaurantId, i + 1,
                    [acc EXCEPT
                       !.itemsTotal = @ + ItemPrice(found[1]) * item.quantity,
                       !.maxPreparationTime =
                           Max(@, OrNum(Some(found[1].preparationTime),
                                        DefaultPreparationTime)),
                       !.orderItems = Append(@,
                           [menuItem |-> item.menuItem,
                            name |-> found[1].name,
                            price |-> ItemPrice(found[1]),
                            quantity |-> item.quantity])])

\* the loop over the cart: the first failing item ends it with its error,
\* otherwise the snapshots, the running total and the longest preparation
RECURSIVE ProcessItems(_, _, _, _)
ProcessItems(items, restaurantId, i, acc) ==
    IF i > Len(items) THEN acc
    ELSE LET item == items[i]
             found == FindMenuItem(item.menuItem)
         IN  IF item.quantity < 1
             THEN [acc EXCEPT !.code = 400, !.err = "InvalidItem"]
             ELSE IF found = None
             THEN [acc EXCEPT !.code = 404, !.err = "MenuItemNotFound"]
             ELSE IF ~found[1].isAvailable
             THEN [acc EXCEPT !.code = 400, !.err = "ItemUnavailable"]
             ELSE IF found[1].restaurantId # restaurantId
             THEN [acc EXCEPT !.code = 400, !.err = "ItemRestaurantMismatch"]
             ELSE ProcessItems(items, restaurantId, i + 1,
                    [acc EXCEPT
                       !.itemsTotal = @ + ItemPrice(found[1]) * item.quantity,
                       !.maxPreparationTime =
                           Max(@, OrNum(Some(found[1].preparationTime),
                                        DefaultPreparationTime)),
                       !.orderItems = Append(@,
                           [menuItem |-> item.menuItem,
                            name |-> found[1].name,
                            price |-> ItemPrice(found[1]),
                            quantity |-> item.quantity])])

\* the response with the outcome of the loop over the cart ignored
PlaceResponseSkippingItems(restaurantId, items, outcome) ==
    LET found == FindRestaurant(restaurantId)
        acc == ProcessItems(items, restaurantId, 1, EmptyAcc)
    IN  IF restaurantId = ""
        THEN Response(400, "RestaurantIdRequired")
        ELSE IF Len(items) = 0
        THEN Response(400, "ItemsRequired")
        ELSE IF found = None
        THEN Response(404, "RestaurantNotFound")
        ELSE IF ~found[1].isActive \/ ~found[1].isAcceptingOrders
        THEN Response(400, "RestaurantClosed")
        ELSE IF acc.itemsTotal < found[1].minimumOrder
        THEN ResponseData(400, "BelowMinimumOrder",
                          <<found[1].minimumOrder, acc.itemsTotal>>)
        ELSE IF outcome # "ok"
        THEN Response(500, "Unexpected")
        ELSE Response(201, "")

\* the response with the cart read before the restaurant's flags
PlaceResponseItemsFirst(restaurantId, items, outcome) ==
    LET found == FindRestaurant(restaurantId)
        acc == ProcessItems(items, restaurantId, 1, EmptyAcc)
    IN  IF restaurantId = ""
        THEN Response(400, "RestaurantIdRequired")
        ELSE IF Len(items) = 0
        THEN Response(400, "ItemsRequired")
        ELSE IF found = None
        THEN Response(404, "RestaurantNotFound")
        ELSE IF acc.err # ""
        THEN Response(acc.code, acc.err)
        ELSE IF ~found[1].isActive \/ ~found[1].isAcceptingOrders
        THEN Response(400, "RestaurantClosed")
        ELSE IF acc.itemsTotal < found[1].minimumOrder
        THEN ResponseData(400, "BelowMinimumOrder",
                          <<found[1].minimumOrder, acc.itemsTotal>>)
        ELSE IF outcome # "ok"
        THEN Response(500, "Unexpected")
        ELSE Response(201, "")

\* the response of place-order
PlaceResponse(restaurantId, items, outcome) ==
    LET found == FindRestaurant(restaurantId)
        acc == ProcessItems(items, restaurantId, 1, EmptyAcc)
    IN  IF restaurantId = ""
        THEN Response(400, "RestaurantIdRequired")
        ELSE IF Len(items) = 0
        THEN Response(400, "ItemsRequired")
        ELSE IF found = None
        THEN Response(404, "RestaurantNotFound")
        ELSE IF ~found[1].isActive \/ ~found[1].isAcceptingOrders
        THEN Response(400, "RestaurantClosed")
        ELSE IF acc.err # ""
        THEN Response(acc.code, acc.err)
        ELSE IF acc.itemsTotal < found[1].minimumOrder
        THEN ResponseData(400, "BelowMinimumOrder",
                          <<found[1].minimumOrder, acc.itemsTotal>>)
        ELSE IF outcome # "ok"
        THEN Response(500, "Unexpected")
        ELSE Response(201, "")

\* the sum over the lines of price times quantity, each line rounded
RECURSIVE RoundedLinesTotal(_)
RoundedLinesTotal(orderItems) ==
    IF orderItems = <<>> THEN 0
    ELSE MathRound(Head(orderItems).price * Head(orderItems).quantity)
             + RoundedLinesTotal(Tail(orderItems))

\* the document with the items total rounded line by line
NewOrderRoundingLines(user, restaurantId, items, paymentMethod) ==
    LET restaurant == restaurants[restaurantId]
        acc == ProcessItems(items, restaurantId, 1, EmptyAcc)
        deliveryFee == OrNum(Some(restaurant.deliveryFee), DefaultDeliveryFee)
        taxes == Tax(acc.itemsTotal)
        totalAmount == acc.itemsTotal + deliveryFee + taxes
    IN  [orderNumber |-> OrderNumber(now, Len(orders)),
         customer |-> user,
         restaurant |-> restaurantId,
         items |-> acc.orderItems,
         itemsTotal |-> RoundedLinesTotal(acc.orderItems),
         deliveryFee |-> deliveryFee,
         taxes |-> taxes,
         discount |-> 0,
         totalAmount |-> MathRound(totalAmount),
         deliveryAddress |-> DefaultAddress,
         status |-> "placed",
         paymentStatus |-> "pending",
         paymentMethod |-> paymentMethod,
         paymentId |-> None,
         estimatedDeliveryTime |->
             now + acc.maxPreparationTime
                 + OrNum(Some(restaurant.estimatedDeliveryTime), DefaultDeliveryTime),
         actualDeliveryTime |-> None,
         preparationTime |-> acc.maxPreparationTime,
         tracking |-> <<TrackingEntry("placed", <<"Order placed successfully">>,
                                      user, now)>>]

\* the document handed to Order.create, with the order number of the
\* pre-save hook
NewOrder(user, restaurantId, items, paymentMethod) ==
    LET restaurant == restaurants[restaurantId]
        acc == ProcessItems(items, restaurantId, 1, EmptyAcc)
        deliveryFee == OrNum(Some(restaurant.deliveryFee), DefaultDeliveryFee)
        taxes == Tax(acc.itemsTotal)
        totalAmount == acc.itemsTotal + deliveryFee + taxes
    IN  [orderNumber |-> OrderNumber(now, Len(orders)),
         customer |-> user,
         restaurant |-> restaurantId,
         items |-> acc.orderItems,
         itemsTotal |-> MathRound(acc.itemsTotal),
         deliveryFee |-> deliveryFee,
         taxes |-> taxes,
         discount |-> 0,
         totalAmount |-> MathRound(totalAmount),
         deliveryAddress |-> DefaultAddress,
         status |-> "placed",
         paymentStatus |-> "pending",
         paymentMethod |-> paymentMethod,
         paymentId |-> None,
         estimatedDeliveryTime |->
             now + acc.maxPreparationTime
                 + OrNum(Some(restaurant.estimatedDeliveryTime), DefaultDeliveryTime),
         actualDeliveryTime |-> None,
         preparationTime |-> acc.maxPreparationTime,
         tracking |-> <<TrackingEntry("placed", <<"Order placed successfully">>,
                                      user, now)>>]

PlaceOrder(user, restaurantId, items, paymentMethod, outcome) ==
    /\ UNCHANGED <<now, restaurants, menuItems, inflight, sockets>>
    /\ IF Succeeded(PlaceResponse(restaurantId, items, outcome))
       THEN /\ TotalEntries < MaxEntries
            /\ orders' = Append(orders, NewOrder(user, restaurantId, items, paymentMethod))
       ELSE UNCHANGED orders

\* users that place orders
Customers == {u \in Users : Role(u) = "customer"}

\* a place-order request with any cart, on the empty store
PlaceFirstOrder ==
    /\ Len(orders) = 0
    /\ \E user \in Customers, restaurantId \in RestaurantIdInputs,
          items \in Carts, outcome \in CreateOutcomes :
           PlaceOrder(user, restaurantId, items, "cod", outcome)

\* a place-order request with a cart of one item, on the empty store
PlaceFirstSmall ==
    /\ Len(orders) = 0
    /\ \E user \in Customers, restaurantId \in RestaurantIds,
          items \in SmallCarts, outcome \in CreateOutcomes :
           PlaceOrder(user, restaurantId, items, "cod", outcome)

\* a place-order request with a cart of one item
PlaceOrderSmall ==
    \E user \in Customers, restaurantId \in RestaurantIds,
       items \in SmallCarts, outcome \in CreateOutcomes :
        PlaceOrder(user, restaurantId, items, "cod", outcome)

(***************************************************************************)
(* Single status update: router.put('/:id/status') of routes/orders.js.    *)
(***************************************************************************)
StatusResponse(id, status) ==
    IF status \notin validStatuses
    THEN Response(400, "InvalidStatus")
    ELSE IF FindOrder(id) = None
    THEN Response(404, "OrderNotFound")
    ELSE Response(200, "")

\* the update with the order's customer recorded in place of the acting user
UpdatedOrderByCustomer(order, status, message, user) ==
    [order EXCEPT
        !.status = status,
        !.tracking = Append(@, TrackingEntry(status, OrStr(message, OrderMsg(status)),
                                             order.customer, now)),
        !.actualDeliveryTime = IF status = "delivered" THEN Some(now) ELSE @]

\* the assignments to the found order before order.save()
UpdatedOrder(order, status, message, user) ==
    [order EXCEPT
        !.status = status,
        !.tracking = Append(@, TrackingEntry(status, OrStr(message, OrderMsg(status)),
                                             user, now)),
        !.actualDeliveryTime = IF status = "delivered" THEN Some(now) ELSE @]

UpdateOrderStatus(id, status, message, user) ==
    /\ UNCHANGED <<now, restaurants, menuItems, inflight, sockets>>
    /\ IF Succeeded(StatusResponse(id, status))
       THEN /\ TotalEntries < MaxEntries
            /\ orders' = [orders EXCEPT
                             ![id] = UpdatedOrder(orders[id], status, message, user)]
       ELSE UNCHANGED orders

\* a status update by the owner of the first restaurant, without a message
UpdateStatus ==
    \E id \in OrderIdInputs, status \in FewStatusInputs :
        UpdateOrderStatus(id, status, None, "owner1")

\* the first status update of an order (or one of an unknown order), by any
\* user, with any status and message
UpdateStatusFirst ==
    \E id \in OrderIdInputs, status \in StatusInputs,
       message \in MessageInputs, user \in Users :
        /\ id \in OrderIds => Len(orders[id].tracking) = 1
        /\ UpdateOrderStatus(id, status, message, user)

(***************************************************************************)
(* Bulk status update: router.put('/orders/bulk-update') of                *)
(* routes/restaurants.js.                                                  *)
(***************************************************************************)
\* the filter without the restaurant
BulkMatchesAnyRestaurant(orderIds, restaurantId) ==
    {id \in OrderIds : id \in orderIds}

\* the filter of Order.updateMany
BulkMatches(orderIds, restaurantId) ==
    {id \in OrderIds : id \in orderIds /\ orders[id].restaurant = restaurantId}

\* the response of a bulk update that finds the restaurant restaurantId
\* ("" when the user has none)
BulkResponse(user, orderIds, status, restaurantId) ==
    IF ~Authorize(user, {"restaurant", "admin"})
    THEN Response(403, "Forbidden")
    ELSE IF status = ""
    THEN Response(400, "MissingFields")
    ELSE IF restaurantId = ""
    THEN Response(404, "RestaurantNotFound")
    ELSE ResponseData(200, "", <<Cardinality(BulkMatches(orderIds, restaurantId))>>)

\* the update document with $set in place of $push: the history is replaced
BulkUpdatedOrderSet(order, status, message, user) ==
    [order EXCEPT
        !.status = status,
        !.tracking = <<TrackingEntry(status, OrStr(message, BulkMsg(status)),
                                     user, now)>>]

\* the update document of Order.updateMany applied to one matching order
BulkUpdatedOrder(order, status, message, user) ==
    [order EXCEPT
        !.status = status,
        !.tracking = Append(@, TrackingEntry(status, OrStr(message, BulkMsg(status)),
                                             user, now))]

\* Restaurant.findOne({ userId }): "" when there is none
FoundRestaurants(user) ==
    IF RestaurantsOf(user) = {} THEN {""} ELSE RestaurantsOf(user)

BulkUpdate(user, orderIds, status, message) ==
    /\ UNCHANGED <<now, restaurants, menuItems, inflight, sockets>>
    /\ \E restaurantId \in FoundRestaurants(user) :
         IF Succeeded(BulkResponse(user, orderIds, status, restaurantId))
         THEN LET matched == BulkMatches(orderIds, restaurantId)
              IN  /\ TotalEntries + Cardinality(matched) <= MaxEntries
                  /\ orders' = [id \in OrderIds |->
                                  IF id \in matched
                                  THEN BulkUpdatedOrder(orders[id], status, message, user)
                                  ELSE orders[id]]
         ELSE UNCHANGED orders

\* status strings a bulk request may carry: none, a member of the
\* enumeration no route should set, the one that ends an order, and a
\* foreign string
BulkStatusInputs == {"", "placed", "delivered", "bogus"}

BulkUpdateOrders ==
    \E user \in Users, orderIds \in SUBSET OrderIdInputs,
       status \in BulkStatusInputs :
        BulkUpdate(user, orderIds, status, None)

(***************************************************************************)
(* Payment routes: routes/payment.js.                                      *)
(***************************************************************************)
\* parseInt of an amount in tenths
ParseInt(t) == 10 * (t \div 10)

\* `order_${Date.now()}${Math.random().toString(36).substr(2, 9)}`
GeneratedPaymentId(time, random) == <<"order", time, random>>

RandomInputs == {"a"}

\* payment ids a verify request may carry: none or a gateway id
PaymentIdInputs == {None, Some(<<"pay", 0, "x">>)}

\* amounts a create-order request may carry: none, and the totals of the
\* stored orders exactly, with a fraction added, and one rupee more
AmountInputs ==
    {0} \cup {orders[id].totalAmount + d : id \in OrderIds, d \in {0, 5, 10}}

CreateResponse(user, orderId, amount, outcome) ==
    LET found == FindOrder(orderId)
    IN  IF orderId = 0 \/ amount = 0
        THEN Response(400, "MissingFields")
        ELSE IF found = None
        THEN Response(404, "OrderNotFound")
        ELSE IF found[1].customer # user
        THEN Response(403, "Forbidden")
        ELSE IF ParseInt(amount) # found[1].totalAmount
        THEN Response(400, "AmountMismatch")
        ELSE IF outcome # "ok"
        THEN Response(500, "Unexpected")
        ELSE Response(200, "")

\* the handler with the payment id written as soon as the order is found,
\* before the owner and amount checks
PaymentCreateOrderEager(user, orderId, amount, random, outcome) ==
    /\ UNCHANGED <<now, restaurants, menuItems, inflight, sockets>>
    /\ IF orderId \in OrderIds /\ amount # 0 /\ outcome = "ok"
       THEN orders' = [orders EXCEPT ![orderId].paymentId =
                        Some(GeneratedPaymentId(now, random))]
       ELSE UNCHANGED orders

PaymentCreateOrder(user, orderId, amount, random, outcome) ==
    /\ UNCHANGED <<now, restaurants, menuItems, inflight, sockets>>
    /\ IF Succeeded(CreateResponse(user, orderId, amount, outcome))
       THEN orders' = [orders EXCEPT ![orderId].paymentId =
                        Some(GeneratedPaymentId(now, random))]
       ELSE UNCHANGED orders

PaymentCreate ==
    \E user \in Users, orderId \in OrderIdInputs :
      \E amount \in AmountInputs, random \in RandomInputs,
         outcome \in SaveOutcomes(orderId) :
        PaymentCreateOrder(user, orderId, amount, random, outcome)

VerifyResponse(orderId, paymentId) ==
    IF orderId = 0 \/ paymentId = None
    THEN Response(400, "MissingFields")
    ELSE IF FindOrder(orderId) = None
    THEN Response(404, "OrderNotFound")
    ELSE Response(200, "")

\* the update with the total set to the amount paid at the gateway
VerifiedOrderRetotalled(order, paymentId, user) ==
    [order EXCEPT
        !.paymentStatus = "paid",
        !.paymentId = paymentId,
        !.status = "confirmed",
        !.totalAmount = 0,
        !.tracking = Append(@, TrackingEntry("payment_confirmed",
                         <<"Payment successful - Order confirmed">>, user, now))]

\* the assignments to the found order before order.save()
VerifiedOrder(order, paymentId, user) ==
    [order EXCEPT
        !.paymentStatus = "paid",
        !.paymentId = paymentId,
        !.status = "confirmed",
        !.tracking = Append(@, TrackingEntry("payment_confirmed",
                         <<"Payment successful - Order confirmed">>, user, now))]

PaymentVerify(user, orderId, paymentId) ==
    /\ UNCHANGED <<now, restaurants, menuItems, inflight, sockets>>
    /\ IF Succeeded(VerifyResponse(orderId, paymentId))
       THEN /\ TotalEntries < MaxEntries
            /\ orders' = [orders EXCEPT
                             ![orderId] = VerifiedOrder(orders[orderId], paymentId, user)]
       ELSE UNCHANGED orders

\* users that send payment results
PaymentActors == {"cust1"}

PaymentVerified ==
    \E user \in PaymentActors, orderId \in OrderIdInputs,
       paymentId \in PaymentIdInputs :
        PaymentVerify(user, orderId, paymentId)

\* `Payment failed: ${reason || 'Unknown error'}`
FailedMsg(reason) == <<"Payment failed:">> \o OrStr(reason, <<"Unknown error">>)

FailedResponse(orderId, outcome) ==
    IF FindOrder(orderId) = None
    THEN Response(404, "OrderNotFound")
    ELSE IF outcome # "ok"
    THEN Response(500, "Unexpected")
    ELSE Response(200, "")

\* the update with the order cancelled as well
FailedOrderCancelling(order, reason, user) ==
    [order EXCEPT
        !.paymentStatus = "failed",
        !.status = "cancelled",
        !.tracking = Append(@, TrackingEntry("payment_failed", FailedMsg(reason),
                                             user, now))]

\* the assignments to the found order before order.save()
FailedOrder(order, reason, user) ==
    [order EXCEPT
        !.paymentStatus = "failed",
        !.tracking = Append(@, TrackingEntry("payment_failed", FailedMsg(reason),
                                             user, now))]

PaymentFailed(user, orderId, reason, outcome) ==
    /\ UNCHANGED <<now, restaurants, menuItems, inflight, sockets>>
    /\ IF Succeeded(FailedResponse(orderId, outcome))
       THEN /\ TotalEntries < MaxEntries
            /\ orders' = [orders EXCEPT
                             ![orderId] = FailedOrder(orders[orderId], reason, user)]
       ELSE UNCHANGED orders

PaymentFailure ==
    \E user \in PaymentActors, orderId \in OrderIdInputs :
      \E outcome \in SaveOutcomes(orderId) :
        PaymentFailed(user, orderId, None, outcome)

(***************************************************************************)
(* Place order as the two steps its awaits separate: the handler validates *)
(* the request, builds the document and calls Order.create, whose pre-save *)
(* hook awaits countDocuments(); when the hook resumes it reads the clock, *)
(* sets the order number, and the document is inserted under the unique    *)
(* index on orderNumber.  Other requests run between the two steps.        *)
(***************************************************************************)
RemoveAt(s, k) == SubSeq(s, 1, k - 1) \o SubSeq(s, k + 1, Len(s))

\* the stored order numbers
OrderNumbers == {orders[id].orderNumber : id \in OrderIds}

\* validation, the document of Order.create, and the count the hook reads
PlaceBegin(user, restaurantId, items, paymentMethod) ==
    /\ Len(inflight) < MaxInflight
    /\ UNCHANGED <<now, restaurants, menuItems, orders, sockets>>
    /\ IF Succeeded(PlaceResponse(restaurantId, items, "ok"))
       THEN inflight' = Append(inflight,
                          [kind |-> "place",
                           doc |-> NewOrder(user, restaurantId, items, paymentMethod),
                           count |-> Len(orders)])
       ELSE UNCHANGED inflight

\* the insert without the unique index
PlaceCommitUnindexed(k, outcome) ==
    LET request == inflight[k]
        orderNumber == OrderNumber(now, request.count)
    IN  /\ request.kind = "place"
        /\ UNCHANGED <<now, restaurants, menuItems, sockets>>
        /\ inflight' = RemoveAt(inflight, k)
        /\ IF outcome = "ok"
           THEN /\ TotalEntries < MaxEntries
                /\ orders' = Append(orders,
                                [request.doc EXCEPT !.orderNumber = orderNumber])
           ELSE UNCHANGED orders

\* the hook resumes: the order number from the clock and the count read
\* before; the insert is rejected (and the handler answers 500) when the
\* store write fails or a stored order has the same order number
PlaceCommit(k, outcome) ==
    LET request == inflight[k]
        orderNumber == OrderNumber(now, request.count)
    IN  /\ request.kind = "place"
        /\ UNCHANGED <<now, restaurants, menuItems, sockets>>
        /\ inflight' = RemoveAt(inflight, k)
        /\ IF outcome = "ok" /\ orderNumber \notin OrderNumbers
           THEN /\ TotalEntries < MaxEntries
                /\ orders' = Append(orders,
                                [request.doc EXCEPT !.orderNumber = orderNumber])
           ELSE UNCHANGED orders

\* a place-order request with a cart of one item reaches Order.create
PlaceBeginSmall ==
    \E user \in Customers, restaurantId \in RestaurantIds, items \in SmallCarts :
        PlaceBegin(user, restaurantId, items, "cod")

\* the insert of a request in flight
PlaceCommitAny ==
    \E k \in 1..Len(inflight), outcome \in CreateOutcomes : PlaceCommit(k, outcome)

(***************************************************************************)
(* Catalog routes: router.put('/:id') of routes/menu.js and                *)
(* router.put('/settings') of routes/restaurants.js.  A request body is a  *)
(* record of optional fields.                                              *)
(***************************************************************************)
\* bodies of a menu-item update: each field absent or present; the prices
\* are 0.5 (below the schema minimum of 1), 150.5, and a discounted price of
\* 0 or 50
MenuBodyFields ==
    [name : {None, Some("renamed")},
     price : {None, Some(5), Some(1505)},
     discountedPrice : {None, Some(0), Some(500)},
     isAvailable : {None, Some(FALSE), Some(TRUE)},
     restaurantId : {None, Some("r2")}]

\* those that carry at most two fields
MenuBodies ==
    {body \in MenuBodyFields :
        Cardinality({f \in DOMAIN body : body[f] # None}) <= 2}

\* the update validators of findByIdAndUpdate(..., { runValidators: true })
\* on the paths the body sets: price has min 1; the discountedPrice
\* validator `!value || value < this.price` runs without the document, so
\* this.price is undefined and only a falsy value passes
MenuBodyValid(body) ==
    /\ body.price # None => body.price[1] >= 10
    /\ body.discountedPrice # None => FalsyNum(body.discountedPrice)

MenuUpdateResponse(user, id, body) ==
    LET found == FindMenuItem(id)
    IN  IF ~Authorize(user, {"restaurant", "admin"})
        THEN Response(403, "Forbidden")
        ELSE IF found = None
        THEN Response(404, "MenuItemNotFound")
        ELSE IF restaurants[found[1].restaurantId].userId # user /\ Role(user) # "admin"
        THEN Response(403, "NotOwner")
        ELSE IF ~MenuBodyValid(body)
        THEN Response(500, "Unexpected")
        ELSE Response(200, "")

\* $set of the fields the body carries
UpdatedMenuItem(item, body) ==
    [f \in DOMAIN item |->
        IF f \in DOMAIN body /\ body[f] # None
        THEN IF f = "discountedPrice" THEN body[f] ELSE body[f][1]
        ELSE item[f]]

\* the handler with the price snapshots of the stored orders recomputed
UpdateMenuItemRepricing(user, id, body) ==
    /\ UNCHANGED <<now, restaurants, inflight, sockets>>
    /\ IF Succeeded(MenuUpdateResponse(user, id, body))
       THEN /\ menuItems' = [menuItems EXCEPT
                               ![id] = UpdatedMenuItem(menuItems[id], body)]
            /\ orders' =
                  [o \in OrderIds |->
                      [orders[o] EXCEPT !.items =
                          [k \in 1..Len(orders[o].items) |->
                              IF orders[o].items[k].menuItem = id
                              THEN [orders[o].items[k] EXCEPT !.price =
                                      ItemPrice(UpdatedMenuItem(menuItems[id], body))]
                              ELSE orders[o].items[k]]]]
       ELSE UNCHANGED <<menuItems, orders>>

UpdateMenuItem(user, id, body) ==
    /\ UNCHANGED <<now, restaurants, orders, inflight, sockets>>
    /\ IF Succeeded(MenuUpdateResponse(user, id, body))
       THEN menuItems' = [menuItems EXCEPT ![id] = UpdatedMenuItem(menuItems[id], body)]
       ELSE UNCHANGED menuItems

\* bodies of a settings update: a fee of 0 or 30.5, a minimum of 0, 60.4 or
\* 200
SettingsBodies ==
    [isAcceptingOrders : {None, Some(FALSE), Some(TRUE)},
     deliveryFee : {None, Some(0), Some(305)},
     minimumOrder : {None, Some(0), Some(604), Some(2000)}]

SettingsResponse(user, restaurantId) ==
    IF ~Authorize(user, {"restaurant", "admin"})
    THEN Response(403, "Forbidden")
    ELSE IF restaurantId = ""
    THEN Response(404, "RestaurantNotFound")
    ELSE Response(200, "")

\* `if (field !== undefined) restaurant.field = field`
UpdatedRestaurant(restaurant, body) ==
    [f \in DOMAIN restaurant |->
        IF f \in DOMAIN body /\ body[f] # None THEN body[f][1] ELSE restaurant[f]]

UpdateSettings(user, body) ==
    /\ UNCHANGED <<now, menuItems, orders, inflight, sockets>>
    /\ \E restaurantId \in FoundRestaurants(user) :
         IF Succeeded(SettingsResponse(user, restaurantId))
         THEN restaurants' = [restaurants EXCEPT
                                 ![restaurantId] = UpdatedRestaurant(@, body)]
         ELSE UNCHANGED restaurants

\* the catalog the store starts with
BaseRestaurants == CHOOSE r \in InitRestaurants : r["r1"].deliveryFee = 300

\* the number of catalog fields that differ from the starting catalog
CatalogChanges(rs, ms) ==
    Cardinality({<<m, f>> \in MenuIds \X DOMAIN InitMenuItems["m1"] :
                    ms[m][f] # InitMenuItems[m][f]})
    + Cardinality({<<r, f>> \in RestaurantIds \X DOMAIN BaseRestaurants["r1"] :
                    rs[r][f] # BaseRestaurants[r][f]})

\* a menu-item update by any user, of any item, with any body
UpdateMenu ==
    \E user \in Users, id \in MenuIdInputs, body \in MenuBodies :
        /\ UpdateMenuItem(user, id, body)
        /\ CatalogChanges(restaurants', menuItems') <= MaxChanges

\* a settings update by any user, with any body
UpdateRestaurantSettings ==
    \E user \in Users, body \in SettingsBodies :
        /\ UpdateSettings(user, body)
        /\ CatalogChanges(restaurants', menuItems') <= MaxChanges

\* carts of items in quantity 0 or 1
UnitCarts ==
    UNION {[1..n -> [menuItem : MenuIdInputs, quantity : {0, 1}]] : n \in 0..MaxCart}

\* a place-order request with any such cart, on the empty store
PlaceFirstUnit ==
    /\ Len(orders) = 0
    /\ \E user \in Customers, restaurantId \in RestaurantIdInputs,
          items \in UnitCarts, outcome \in CreateOutcomes :
           PlaceOrder(user, restaurantId, items, "cod", outcome)

(***************************************************************************)
(* Push connections: io.on('connection') and the test notification route.  *)
(***************************************************************************)
Conns == {"s1", "s2"}

\* the number of sockets connected at the same time
MaxConnected == 2

\* the number of rooms a socket is followed into
MaxRooms == 2

\* the number of events a socket is followed through
MaxEvents == 1

\* `customer-${userId}`, `restaurants-${restaurantsId}` and 'admin-room'
CustomerRoom(userId) == <<"customer", userId>>

RestaurantsRoom(restaurantsId) == <<"restaurants", restaurantsId>>

AdminRoom == <<"admin-room", "">>

\* before any client connects
NoSockets == [c \in Conns |-> [connected |-> FALSE, rooms |-> {}, received |-> <<>>]]

Connected == {c \in Conns : sockets[c].connected}

\* a client connects: a new socket, in no room
Connect(c) ==
    /\ ~sockets[c].connected
    /\ Cardinality(Connected) < MaxConnected
    /\ sockets' = [sockets EXCEPT ![c] = [connected |-> TRUE, rooms |-> {}, received |-> <<>>]]
    /\ UNCHANGED <<now, restaurants, menuItems, orders, inflight>>

\* the client goes away: the socket leaves its rooms
Disconnect(c) ==
    /\ sockets[c].connected
    /\ sockets' = [sockets EXCEPT ![c] = [connected |-> FALSE, rooms |-> {}, received |-> <<>>]]
    /\ UNCHANGED <<now, restaurants, menuItems, orders, inflight>>

\* the payloads of a join-room message
JoinInputs ==
    [userId : {"cust1", "cust2"},
     role : {"customer", "restaurants", "admin", "restaurant"},
     restaurantsId : RestaurantIds]

\* the room the handler joins the socket to, if any
JoinedRooms(data) ==
    IF data.role = "customer" THEN {CustomerRoom(data.userId)}
    ELSE IF data.role = "restaurants" THEN {RestaurantsRoom(data.restaurantsId)}
    ELSE IF data.role = "admin" THEN {AdminRoom}
    ELSE {}

\* socket.on('join-room')
JoinRoom(c, data) ==
    /\ sockets[c].connected
    /\ Cardinality(sockets[c].rooms \cup JoinedRooms(data)) <= MaxRooms
    /\ sockets' = [sockets EXCEPT ![c].rooms = @ \cup JoinedRooms(data)]
    /\ UNCHANGED <<now, restaurants, menuItems, orders, inflight>>

\* the bodies of a test notification request
NotificationBodies ==
    [type : {None, Some("broadcast"), Some("order")},
     targetId : {None, Some(CustomerRoom("cust1"))}]

\* req.body when the router runs: the router is mounted before
\* express.json(), so no parser has filled it in
ReqBody(body) == None

\* const { type = 'broadcast', targetId, message } = req.body || {}
NotificationType(body) ==
    IF ReqBody(body) = None \/ ReqBody(body)[1].type = None
    THEN "broadcast"
    ELSE ReqBody(body)[1].type[1]

\* the event the route emits
TestEvent(body) ==
    [name |-> "test-notification", type |-> NotificationType(body)]

\* io.emit: every connected socket receives the event
EmitToAll(event) ==
    [c \in Conns |->
        IF sockets[c].connected
        THEN [sockets[c] EXCEPT !.received = Append(@, event)]
        ELSE sockets[c]]

\* router.post('/test-notification'), behind protect
TestNotification(user, body) ==
    /\ \A c \in Connected : Len(sockets[c].received) < MaxEvents
    /\ sockets' = EmitToAll(TestEvent(body))
    /\ UNCHANGED <<now, restaurants, menuItems, orders, inflight>>

(***************************************************************************)
(* Specifications.                                                         *)
(***************************************************************************)
\* time passes
Tick ==
    /\ now < MaxClock
    /\ now' = now + 1
    /\ UNCHANGED <<restaurants, menuItems, orders, inflight, sockets>>

Init ==
    /\ now = 1
    /\ restaurants \in {r \in InitRestaurants : r["r1"].deliveryFee = 300}
    /\ menuItems = InitMenuItems
    /\ orders = <<>>
    /\ inflight = <<>>
    /\ sockets = NoSockets

\* the catalog may hold a delivery fee that is not a whole number
InitPricing ==
    /\ now = 1
    /\ restaurants \in InitRestaurants
    /\ menuItems = InitMenuItems
    /\ orders = <<>>
    /\ inflight = <<>>
    /\ sockets = NoSockets

\* the order lifecycle: every route that writes an order
Next ==
    \/ PlaceOrderSmall
    \/ UpdateStatus
    \/ BulkUpdateOrders
    \/ PaymentCreate
    \/ PaymentVerified
    \/ PaymentFailure
    \/ Tick

Spec == Init /\ [][Next]_vars

\* the single status route with every input, on the first order
NextStatus == PlaceFirstSmall \/ UpdateStatusFirst \/ Tick

SpecStatus == Init /\ [][NextStatus]_vars

\* every route that writes an order, on the first order, with every
\* place-order request
NextFirst ==
    \/ PlaceFirstUnit
    \/ UpdateStatus
    \/ BulkUpdateOrders
    \/ PaymentCreate
    \/ PaymentVerified
    \/ PaymentFailure

SpecFirst == Init /\ [][NextFirst]_vars

\* orders of several restaurants and the bulk status route
NextBulk == PlaceOrderSmall \/ BulkUpdateOrders \/ Tick

SpecBulk == Init /\ [][NextBulk]_vars

\* place-order requests that overlap
NextConcurrent == PlaceBeginSmall \/ PlaceCommitAny \/ Tick

SpecConcurrent == Init /\ [][NextConcurrent]_vars

\* place-order under a changing catalog
NextCatalog == PlaceFirstUnit \/ UpdateMenu \/ UpdateRestaurantSettings

SpecCatalog == Init /\ [][NextCatalog]_vars

\* place-order with every cart
NextPricing == PlaceFirstOrder \/ Tick

SpecPricing == InitPricing /\ [][NextPricing]_vars

(***************************************************************************)
(* Get single order.                                                       *)
(***************************************************************************)
\* the users that read orders: the users above, a second customer and an
\* administrator
Readers == Users \cup {"cust2", "admin1"}

\* the check with the restaurant's owner let through as well
GetOrderResponseForOwner(user, id) ==
    IF FindOrder(id) = None
    THEN Response(404, "OrderNotFound")
    ELSE IF /\ orders[id].customer # user
            /\ Role(user) # "admin"
            /\ restaurants[orders[id].restaurant].userId # user
    THEN Response(403, "AccessDenied")
    ELSE ResponseData(200, "", orders[id])

GetOrderResponse(user, id) ==
    IF FindOrder(id) = None
    THEN Response(404, "OrderNotFound")
    ELSE IF orders[id].customer # user /\ Role(user) # "admin"
    THEN Response(403, "AccessDenied")
    ELSE ResponseData(200, "", orders[id])

Connects == \E c \in Conns : Connect(c)

Disconnects == \E c \in Conns : Disconnect(c)

JoinsRoom == \E c \in Conns, data \in JoinInputs : JoinRoom(c, data)

TestNotifications ==
    \E user \in Readers, body \in NotificationBodies : TestNotification(user, body)

\* the push server alone
NextSockets == Connects \/ Disconnects \/ JoinsRoom \/ TestNotifications

SpecSockets == Init /\ [][NextSockets]_vars

\* the first order and its status updates, with clients connected
NextEvents ==
    \/ PlaceFirstSmall
    \/ UpdateStatus
    \/ Connects
    \/ Disconnects
    \/ JoinsRoom
    \/ TestNotifications

SpecEvents == Init /\ [][NextEvents]_vars

(***************************************************************************)
(* Single status update as the two steps its awaits separate: the handler  *)
(* loads the order and assigns to the loaded document; order.save() then   *)
(* sends the changes of that document to the store.                        *)
(***************************************************************************)
\* the number of tracking entries the interleaved updates are followed to
MaxRaceEntries == 4

\* Order.findById and the assignments to the loaded document
StatusBegin(id, status, message, user) ==
    /\ Len(inflight) < MaxInflight
    /\ UNCHANGED <<now, restaurants, menuItems, orders, sockets>>
    /\ IF Succeeded(StatusResponse(id, status))
       THEN inflight' = Append(inflight,
                          [kind |-> "status",
                           id |-> id,
                           loaded |-> orders[id].status,
                           status |-> status,
                           entry |-> TrackingEntry(status,
                                        OrStr(message, OrderMsg(status)), user, now),
                           time |-> now])
       ELSE UNCHANGED inflight

\* what order.save() writes: status only when the assignment changed the
\* loaded value, the pushed entry appended to the stored history, the
\* delivery time when it was assigned
SavedOrder(stored, request) ==
    [stored EXCEPT
        !.status = IF request.status # request.loaded THEN request.status ELSE @,
        !.tracking = Append(@, request.entry),
        !.actualDeliveryTime =
            IF request.status = "delivered" THEN Some(request.time) ELSE @]

\* order.save() of a request in flight
StatusCommit(k) ==
    LET request == inflight[k]
    IN  /\ request.kind = "status"
        /\ TotalEntries < MaxRaceEntries
        /\ UNCHANGED <<now, restaurants, menuItems, sockets>>
        /\ inflight' = RemoveAt(inflight, k)
        /\ orders' = [orders EXCEPT
                         ![request.id] = SavedOrder(orders[request.id], request)]

\* a status update by the owner of the first restaurant loads its order
StatusBegins ==
    \E id \in OrderIdInputs, status \in FewStatusInputs :
        StatusBegin(id, status, None, "owner1")

StatusCommits == \E k \in 1..Len(inflight) : StatusCommit(k)

\* the first order and interleaved status updates of it
NextRace == PlaceFirstSmall \/ StatusBegins \/ StatusCommits \/ Tick

SpecRace == Init /\ [][NextRace]_vars

(***************************************************************************)
(* Menu-item updates whose body is an update operator: the handler hands   *)
(* req.body to findByIdAndUpdate as the update.                            *)
(***************************************************************************)
\* the number of catalog fields the operator updates are followed through
MaxMenuChanges == 2

\* the amount (250) up to which incremented figures are followed
MaxPrice == 2500

\* bodies { $inc: { <field>: <amount> } }, the amount 50 up or down
MenuIncrements == [field : {"price", "discountedPrice"}, amount : {-500, 500}]

\* a body that sets no field
NoFields == [f \in DOMAIN InitMenuItems["m1"] \ {"preparationTime"} |-> None]

\* the checks before the update; the update validators do not run on $inc
IncrementResponse(user, id) == MenuUpdateResponse(user, id, NoFields)

\* $inc adds to the stored number and sets a missing field to the amount
IncrementedMenuItem(item, inc) ==
    IF inc.field = "price"
    THEN [item EXCEPT !.price = @ + inc.amount]
    ELSE [item EXCEPT !.discountedPrice =
             IF @ = None THEN Some(inc.amount) ELSE Some(@[1] + inc.amount)]

\* router.put('/:id') with such a body
IncrementMenuItem(user, id, inc) ==
    /\ UNCHANGED <<now, restaurants, orders, inflight, sockets>>
    /\ IF Succeeded(IncrementResponse(user, id))
       THEN menuItems' = [menuItems EXCEPT ![id] = IncrementedMenuItem(menuItems[id], inc)]
       ELSE UNCHANGED menuItems

\* a menu-item update that sets fields, by any user, of any item
UpdateMenuFields ==
    \E user \in Users, id \in MenuIdInputs, body \in MenuBodies :
        /\ UpdateMenuItem(user, id, body)
        /\ CatalogChanges(restaurants', menuItems') <= MaxMenuChanges

\* a menu-item update that increments a field, by any user, of any item
IncrementMenu ==
    \E user \in Users, id \in MenuIdInputs, inc \in MenuIncrements :
        /\ IncrementMenuItem(user, id, inc)
        /\ \A m \in MenuIds :
              /\ menuItems'[m].price \in 0..MaxPrice
              /\ menuItems'[m].discountedPrice # None
                    => menuItems'[m].discountedPrice[1] \in 0..MaxPrice
        /\ CatalogChanges(restaurants', menuItems') <= MaxMenuChanges

\* the menu-item update route with either kind of body
NextMenu == UpdateMenuFields \/ IncrementMenu

SpecMenu == Init /\ [][NextMenu]_vars

(***************************************************************************)
(* Restaurant registration: router.post('/') of routes/restaurants.js, as  *)
(* the two steps its awaits separate, and router.post('/setup-test-data')  *)
(* of routes/orders.js.  A created restaurant is a new key of the store.   *)
(***************************************************************************)
\* the ids the store gives to created restaurants, in this order
NewRestaurantIds == <<"r3", "r4", "r5">>

\* the users that register: an owner with a restaurant, an owner without
\* one, and a customer
Registrants == {"owner1", "owner3", "cust1"}

\* Restaurant.findOne({ userId })
OwnedBy(user) == {r \in DOMAIN restaurants : restaurants[r].userId = user}

TestRestaurantName == "DesiEats Test Restaurant"

\* Restaurant.findOne({ name: 'DesiEats Test Restaurant' })
TestRestaurants ==
    {r \in DOMAIN restaurants :
        "name" \in DOMAIN restaurants[r] /\ restaurants[r].name = TestRestaurantName}

\* the next unused id, when there is one
FreeRestaurantIds ==
    {k \in 1..Len(NewRestaurantIds) :
        /\ NewRestaurantIds[k] \notin DOMAIN restaurants
        /\ \A j \in 1..(k - 1) : NewRestaurantIds[j] \in DOMAIN restaurants}

\* bodies of a registration: with or without the required fields, with a
\* delivery fee of 0 or 45.5 or none
RegisterBodies ==
    [name : {None, Some("Cafe")}, deliveryFee : {None, Some(0), Some(455)}]

RegisterResponse(user, body) ==
    IF ~Authorize(user, {"restaurant", "admin"})
    THEN Response(403, "Forbidden")
    ELSE IF body.name = None
    THEN Response(400, "MissingFields")
    ELSE IF OwnedBy(user) # {}
    THEN Response(400, "AlreadyRegistered")
    ELSE Response(201, "")

\* the document of Restaurant.create
NewRestaurant(user, body) ==
    [userId |-> user,
     name |-> body.name[1],
     isActive |-> TRUE,
     isAcceptingOrders |-> TRUE,
     minimumOrder |-> 1000,
     deliveryFee |-> OrNum(body.deliveryFee, 300),
     estimatedDeliveryTime |-> 30]

\* validation and the lookup of the user's restaurant
RegisterBegin(user, body) ==
    /\ Len(inflight) < MaxInflight
    /\ UNCHANGED <<now, restaurants, menuItems, orders, sockets>>
    /\ IF Succeeded(RegisterResponse(user, body))
       THEN inflight' = Append(inflight,
                          [kind |-> "register", doc |-> NewRestaurant(user, body)])
       ELSE UNCHANGED inflight

\* Restaurant.create of a request in flight
RegisterCommit(k) ==
    /\ inflight[k].kind = "register"
    /\ UNCHANGED <<now, menuItems, orders, sockets>>
    /\ inflight' = RemoveAt(inflight, k)
    /\ \E f \in FreeRestaurantIds :
          restaurants' = restaurants @@ (NewRestaurantIds[f] :> inflight[k].doc)

\* the six menu items of the test restaurant
TestMenuItems(restaurantId) ==
    LET item(name, price, preparationTime) ==
            [restaurantId |-> restaurantId,
             name |-> name,
             price |-> price,
             discountedPrice |-> None,
             isAvailable |-> TRUE,
             preparationTime |-> preparationTime]
    IN  ("t1" :> item("Butter Chicken", 2800, 20))
        @@ ("t2" :> item("Dal Makhani", 2000, 15))
        @@ ("t3" :> item("Chicken Biryani", 3200, 25))
        @@ ("t4" :> item("Veg Hakka Noodles", 1800, 12))
        @@ ("t5" :> item("Chicken Fried Rice", 2200, 15))
        @@ ("t6" :> item("Masala Dosa", 1200, 10))

\* the test restaurant, owned by the acting user
TestRestaurant(user) ==
    [userId |-> user,
     name |-> TestRestaurantName,
     isActive |-> TRUE,
     isAcceptingOrders |-> TRUE,
     minimumOrder |-> 1000,
     deliveryFee |-> 300,
     estimatedDeliveryTime |-> 25]

\* router.post('/setup-test-data'), behind protect: the test restaurant and
\* its menu unless a restaurant of that name exists
SetupTestData(user) ==
    /\ UNCHANGED <<now, orders, inflight, sockets>>
    /\ IF TestRestaurants # {}
       THEN UNCHANGED <<restaurants, menuItems>>
       ELSE \E f \in FreeRestaurantIds :
               /\ restaurants' = restaurants @@ (NewRestaurantIds[f] :> TestRestaurant(user))
               /\ menuItems' = menuItems @@ TestMenuItems(NewRestaurantIds[f])

RegisterBegins ==
    \E user \in Registrants, body \in RegisterBodies : RegisterBegin(user, body)

RegisterCommits == \E k \in 1..Len(inflight) : RegisterCommit(k)

SetsUpTestData == \E user \in Registrants : SetupTestData(user)

\* the routes that create restaurants
NextRegister == RegisterBegins \/ RegisterCommits \/ SetsUpTestData

SpecRegister == Init /\ [][NextRegister]_vars

(***************************************************************************)
(* Place order on a menu with a price that is not a whole number.          *)
(***************************************************************************)
\* the second menu item may have been given the price 60.4 or 109.6
InitTaxes ==
    /\ now = 1
    /\ restaurants \in {r \in InitRestaurants : r["r1"].deliveryFee = 300}
    /\ menuItems \in {[InitMenuItems EXCEPT !["m2"].price = p] : p \in {604, 1096}}
    /\ orders = <<>>
    /\ inflight = <<>>
    /\ sockets = NoSockets

SpecTaxes == InitTaxes /\ [][NextPricing]_vars

(***************************************************************************)
(* Delivery estimates: the owner changes the preparation time of a menu    *)
(* item and the delivery time of the restaurant, then an order is placed.  *)
(***************************************************************************)
\* a menu-item update whose body carries a preparation time of 0 or 40
\* minutes
SetPreparationTime ==
    \E user \in Users, id \in MenuIds,
       body \in [name : {None}, price : {None}, discountedPrice : {None},
                 isAvailable : {None}, restaurantId : {None},
                 preparationTime : {Some(0), Some(40)}] :
        /\ UpdateMenuItem(user, id, body)
        /\ CatalogChanges(restaurants', menuItems') <= MaxMenuChanges

\* a settings update whose body carries a delivery time of 0 or 45 minutes
SetDeliveryTime ==
    \E user \in Users,
       body \in [estimatedDeliveryTime : {Some(0), Some(45)}] :
        /\ UpdateSettings(user, body)
        /\ CatalogChanges(restaurants', menuItems') <= MaxMenuChanges

SpecDelivery ==
    Init /\ [][PlaceFirstOrder \/ SetPreparationTime \/ SetDeliveryTime \/ Tick]_vars

(***************************************************************************)
(* Payment results sent by any authenticated user: the payment routes are  *)
(* behind `protect` only.                                                  *)
(***************************************************************************)
\* a verify request by any user
PaymentVerifiedByAnyone ==
    \E user \in Users, orderId \in OrderIdInputs,
       paymentId \in PaymentIdInputs :
        PaymentVerify(user, orderId, paymentId)

\* a failed request by any user
PaymentFailureByAnyone ==
    \E user \in Users, orderId \in OrderIdInputs :
      \E outcome \in SaveOutcomes(orderId) :
        PaymentFailed(user, orderId, None, outcome)

SpecPayments ==
    Init /\ [][\/ PlaceFirstSmall
               \/ PaymentCreate
               \/ PaymentVerifiedByAnyone
               \/ PaymentFailureByAnyone]_vars

(***************************************************************************)
(* Properties.                                                             *)
(***************************************************************************)
IsPrefix(s, t) == Len(s) <= Len(t) /\ \A k \in 1..Len(s) : s[k] = t[k]

Last(s) == s[Len(s)]

\* the positions of an order's tracking entries with the given status
EntriesWith(id, status) ==
    {k \in 1..Len(orders[id].tracking) : orders[id].tracking[k].status = status}

\* C1: every stored order satisfies
\* totalAmount = itemsTotal + deliveryFee + taxes - discount on its stored
\* fields, also for prices and delivery fees that are not whole numbers.
C1_TotalIsSumOfParts ==
    \A id \in OrderIds :
        orders[id].totalAmount =
            orders[id].itemsTotal + orders[id].deliveryFee + orders[id].taxes
                - orders[id].discount

\* C2: every order has a tracking history of length >= 1 whose last entry's
\* status equals the order's current status.
C2_LastEntryIsStatus ==
    \A id \in OrderIds :
        /\ Len(orders[id].tracking) >= 1
        /\ Last(orders[id].tracking).status = orders[id].status

\* C3: once an order is delivered, cancelled or refunded, no operation
\* changes its status, its tracking history or its actualDeliveryTime.
C3_TerminalIsFinal ==
    [][\A id \in OrderIds :
          orders[id].status \in TerminalStatuses =>
              /\ orders'[id].status = orders[id].status
              /\ orders'[id].tracking = orders[id].tracking
              /\ orders'[id].actualDeliveryTime = orders[id].actualDeliveryTime]_vars

\* C4: every stored order's status, and the status of every one of its
\* tracking entries, is one of the nine values of the enumeration.
C4_StatusInEnum ==
    \A id \in OrderIds :
        /\ orders[id].status \in StatusEnum
        /\ \A k \in 1..Len(orders[id].tracking) :
               orders[id].tracking[k].status \in StatusEnum

\* C5, as stated: a successful single status update sets the status and
\* appends exactly one entry with that status, the acting user, and the
\* supplied message whenever one is supplied (the default message only when
\* none is), the earlier entries unchanged.
C5_UpdateAppendsSuppliedMessage ==
    [][\A id \in OrderIds, status \in StatusInputs,
          message \in MessageInputs, user \in Users :
            (UpdateOrderStatus(id, status, message, user)
                /\ Succeeded(StatusResponse(id, status))) =>
               /\ orders'[id].status = status
               /\ orders'[id].tracking =
                     Append(orders[id].tracking,
                            [status |-> status,
                             message |-> IF message = None
                                         THEN <<"Order", status>>
                                         ELSE message[1],
                             updatedBy |-> user,
                             timestamp |-> now])]_vars

\* C5, amended: a successful single status update sets the status and
\* appends exactly one entry with that status, the acting user, and the
\* supplied message when it is a non-empty text, the default message
\* `Order <status>` when the message is missing or empty; the earlier
\* entries are unchanged.
C5_UpdateAppendsEntry ==
    [][\A id \in OrderIds, status \in StatusInputs,
          message \in MessageInputs, user \in Users :
            (UpdateOrderStatus(id, status, message, user)
                /\ Succeeded(StatusResponse(id, status))) =>
               /\ orders'[id].status = status
               /\ orders'[id].tracking =
                     Append(orders[id].tracking,
                            [status |-> status,
                             message |-> IF message \in {None, Some(EmptyText)}
                                         THEN <<"Order", status>>
                                         ELSE message[1],
                             updatedBy |-> user,
                             timestamp |-> now])]_vars

\* an order that a user other than its customer moved on, some time after
\* it was placed, with the default message
C5_Witness ==
    \E id \in OrderIds :
        /\ Len(orders[id].tracking) = 2
        /\ orders[id].status = "preparing"
        /\ orders[id].tracking[2].status = "preparing"
        /\ orders[id].tracking[2].message = <<"Order", "preparing">>
        /\ orders[id].tracking[2].updatedBy = "owner2"
        /\ orders[id].tracking[2].timestamp > orders[id].tracking[1].timestamp

\* C6: the single status update answers InvalidStatus exactly when the
\* status is not a member of the nine-value enumeration; in particular an
\* update to refunded is not refused as an invalid status.
C6_InvalidStatusIffNotInEnum ==
    \A id \in OrderIds, status \in StatusInputs :
        (StatusResponse(id, status).err = "InvalidStatus") <=> (status \notin StatusEnum)

\* C7: placed is entered exactly once, at creation: every order has exactly
\* one tracking entry with status placed, its first, and no operation sets
\* the status of an order that has left placed back to placed.
C7_PlacedOnlyAtCreation ==
    /\ [](\A id \in OrderIds : EntriesWith(id, "placed") = {1})
    /\ [][\A id \in OrderIds :
            orders[id].status # "placed" => orders'[id].status # "placed"]_vars

\* C8: actualDeliveryTime is set exactly when the order has been delivered
\* (it is unset before, and set in every state where the status is
\* delivered), and once set its value never changes.
C8_DeliveryTimeSetOnce ==
    /\ [](\A id \in OrderIds :
            /\ (EntriesWith(id, "delivered") = {}) =>
                   orders[id].actualDeliveryTime = None
            /\ (orders[id].status = "delivered") =>
                   orders[id].actualDeliveryTime # None)
    /\ [][\A id \in OrderIds :
            orders[id].actualDeliveryTime # None =>
                orders'[id].actualDeliveryTime = orders[id].actualDeliveryTime]_vars

\* C9: the tracking history of every order is append-only: under every
\* operation no order is removed and each order's history before the
\* operation is a prefix of its history after it.
C9_TrackingAppendOnly ==
    [][/\ Len(orders') >= Len(orders)
       /\ \A id \in OrderIds :
              IsPrefix(orders[id].tracking, orders'[id].tracking)]_vars

\* an order whose history grew by a failed payment and then by a bulk
\* update, after a payment order was created for it
C9_Witness ==
    \E id \in OrderIds :
        /\ Len(orders[id].tracking) = 3
        /\ orders[id].tracking[2].status = "payment_failed"
        /\ orders[id].tracking[3].message = <<"Bulk updated to", "delivered">>
        /\ orders[id].paymentId # None

\* C10: a Paid payment result sets paymentStatus to paid and paymentId to
\* the supplied id, and moves the status to confirmed only when the order is
\* not delivered, cancelled or refunded; a terminal order keeps its status.
C10_PaidKeepsTerminalStatus ==
    [][\A id \in OrderIds, paymentId \in PaymentIdInputs, user \in PaymentActors :
          (PaymentVerify(user, id, paymentId)
              /\ Succeeded(VerifyResponse(id, paymentId))) =>
             /\ orders'[id].paymentStatus = "paid"
             /\ orders'[id].paymentId = paymentId
             /\ orders'[id].status =
                    IF orders[id].status \in TerminalStatuses
                    THEN orders[id].status ELSE "confirmed"]_vars

\* the fields of an order document other than the given ones
OtherFields(order, fields) == (DOMAIN order) \ fields

\* C11: a Failed payment result on an existing order sets paymentStatus to
\* failed and appends exactly one tracking entry; the order's status, items,
\* pricing fields, paymentId, actualDeliveryTime and every other field are
\* unchanged, and so is every other order.
C11_FailedChangesOnlyPayment ==
    [][\A id \in OrderIds, user \in PaymentActors, outcome \in Outcomes :
          (PaymentFailed(user, id, None, outcome)
              /\ Succeeded(FailedResponse(id, outcome))) =>
             /\ orders'[id].paymentStatus = "failed"
             /\ Len(orders'[id].tracking) = Len(orders[id].tracking) + 1
             /\ IsPrefix(orders[id].tracking, orders'[id].tracking)
             /\ \A f \in OtherFields(orders[id], {"paymentStatus", "tracking"}) :
                    orders'[id][f] = orders[id][f]
             /\ \A other \in OrderIds \ {id} : orders'[other] = orders[other]]_vars

\* a delivered order with a payment id whose payment then failed
C11_Witness ==
    \E id \in OrderIds :
        /\ orders[id].paymentStatus = "failed"
        /\ orders[id].status = "delivered"
        /\ orders[id].actualDeliveryTime # None
        /\ Last(orders[id].tracking).status = "payment_failed"

\* the cart item references a stored menu item that is not available
Unavailable(item) ==
    /\ FindMenuItem(item.menuItem) # None
    /\ ~menuItems[item.menuItem].isAvailable

\* the cart item passes every check of the loop
ItemOk(item, restaurantId) ==
    /\ item.quantity >= 1
    /\ FindMenuItem(item.menuItem) # None
    /\ menuItems[item.menuItem].isAvailable
    /\ menuItems[item.menuItem].restaurantId = restaurantId

\* the request passes the checks made before the loop over the cart
RestaurantOpen(restaurantId) ==
    /\ FindRestaurant(restaurantId) # None
    /\ restaurants[restaurantId].isActive
    /\ restaurants[restaurantId].isAcceptingOrders

\* the line items of the order a step creates, none when it creates none
CreatedItems ==
    IF Len(orders') > Len(orders) THEN {Last(orders').items} ELSE {}

\* C12, as stated: a cart with an unavailable item at any position is
\* rejected with the item-unavailable error, whatever else the request
\* holds, and no order is created.
C12_UnavailableAlwaysReported ==
    \A restaurantId \in RestaurantIdInputs, items \in UnitCarts,
       outcome \in CreateOutcomes :
        (\E i \in 1..Len(items) : Unavailable(items[i])) =>
            PlaceResponse(restaurantId, items, outcome).err = "ItemUnavailable"

\* C12, amended: a cart with an unavailable item at any position is
\* rejected and no order is created; the error is item-unavailable when the
\* restaurant is found and open, the unavailable item has a quantity >= 1
\* and every item before it passes its checks (otherwise the error is that
\* of the first failing check).
C12_UnavailableRejected ==
    /\ [](\A restaurantId \in RestaurantIdInputs, items \in UnitCarts,
             outcome \in CreateOutcomes :
              (\E i \in 1..Len(items) : Unavailable(items[i])) =>
                 /\ ~Succeeded(PlaceResponse(restaurantId, items, outcome))
                 /\ (/\ RestaurantOpen(restaurantId)
                     /\ \E i \in 1..Len(items) :
                           /\ Unavailable(items[i])
                           /\ items[i].quantity >= 1
                           /\ \A j \in 1..(i - 1) : ItemOk(items[j], restaurantId))
                    => PlaceResponse(restaurantId, items, outcome).err
                           = "ItemUnavailable")
    /\ [][\A items \in CreatedItems :
            \A i \in 1..Len(items) : ~Unavailable(items[i])]_vars

\* an item that was made unavailable sits second in a cart whose first item
\* is fine, and the request is answered with the item-unavailable error
C12_Witness ==
    \E m \in MenuIds, first \in MenuIds :
        /\ ~menuItems[m].isAvailable
        /\ ItemOk([menuItem |-> first, quantity |-> 1], menuItems[first].restaurantId)
        /\ PlaceResponse(menuItems[first].restaurantId,
                         <<[menuItem |-> first, quantity |-> 1],
                           [menuItem |-> m, quantity |-> 1]>>, "ok").err
               = "ItemUnavailable"

\* the cart item references a stored menu item of another restaurant
Mismatched(item, restaurantId) ==
    /\ FindMenuItem(item.menuItem) # None
    /\ menuItems[item.menuItem].restaurantId # restaurantId

\* C13, as stated: in every state every line item of every stored order
\* references a menu item of the order's restaurant, and a request with an
\* item of another restaurant is answered with the mismatch error.
C13_ItemsOfOrderRestaurant ==
    /\ \A id \in OrderIds : \A k \in 1..Len(orders[id].items) :
           ~Mismatched(orders[id].items[k], orders[id].restaurant)
    /\ \A restaurantId \in RestaurantIdInputs, items \in UnitCarts,
          outcome \in CreateOutcomes :
           (\E i \in 1..Len(items) : Mismatched(items[i], restaurantId)) =>
               PlaceResponse(restaurantId, items, outcome).err
                   = "ItemRestaurantMismatch"

\* C13, amended: when an order is created, every line item references a
\* menu item that belongs to the order's restaurant at that time; a request
\* with an item of another restaurant is rejected and creates no order, with
\* the mismatch error when the restaurant is found and open, the item is
\* available in a quantity >= 1 and every item before it passes its checks.
C13_MismatchRejected ==
    /\ [](\A restaurantId \in RestaurantIdInputs, items \in UnitCarts,
             outcome \in CreateOutcomes :
              (\E i \in 1..Len(items) : Mismatched(items[i], restaurantId)) =>
                 /\ ~Succeeded(PlaceResponse(restaurantId, items, outcome))
                 /\ (/\ RestaurantOpen(restaurantId)
                     /\ \E i \in 1..Len(items) :
                           /\ Mismatched(items[i], restaurantId)
                           /\ items[i].quantity >= 1
                           /\ ~Unavailable(items[i])
                           /\ \A j \in 1..(i - 1) : ItemOk(items[j], restaurantId))
                    => PlaceResponse(restaurantId, items, outcome).err
                           = "ItemRestaurantMismatch")
    /\ [][\A items \in CreatedItems :
            \A i \in 1..Len(items) :
                ~Mismatched(items[i], Last(orders').restaurant)]_vars

\* an order of two items of its restaurant is stored, and a cart that mixes
\* two restaurants is answered with the mismatch error
C13_Witness ==
    \E id \in OrderIds, m \in MenuIds :
        /\ Len(orders[id].items) = 2
        /\ Mismatched([menuItem |-> m, quantity |-> 1], orders[id].restaurant)
        /\ PlaceResponse(orders[id].restaurant,
                         <<orders[id].items[1], [menuItem |-> m, quantity |-> 1]>>,
                         "ok").err = "ItemRestaurantMismatch"

\* the sum of price times quantity over a cart whose items all pass
RECURSIVE CartTotal(_)
CartTotal(items) ==
    IF items = <<>> THEN 0
    ELSE ItemPrice(menuItems[Head(items).menuItem]) * Head(items).quantity
             + CartTotal(Tail(items))

\* the request passes every check before the minimum order
AllItemsPass(restaurantId, items) ==
    /\ RestaurantOpen(restaurantId)
    /\ Len(items) > 0
    /\ \A i \in 1..Len(items) : ItemOk(items[i], restaurantId)

\* C14: a request whose items all pass validation is rejected with the
\* below-minimum error, carrying the required minimum and the current total,
\* exactly when its items total is below the restaurant's minimumOrder, and
\* then creates no order; every order that is created has a stored
\* itemsTotal >= the minimumOrder of its restaurant at that time.
C14_MinimumOrderEnforced ==
    /\ [](\A restaurantId \in RestaurantIds, items \in UnitCarts,
             outcome \in CreateOutcomes :
              AllItemsPass(restaurantId, items) =>
                 LET response == PlaceResponse(restaurantId, items, outcome)
                     minimum == restaurants[restaurantId].minimumOrder
                 IN  IF CartTotal(items) < minimum
                     THEN /\ response.err = "BelowMinimumOrder"
                          /\ response.data = <<minimum, CartTotal(items)>>
                          /\ ~Succeeded(response)
                     ELSE response.err # "BelowMinimumOrder")
    /\ [][Len(orders') > Len(orders) =>
            Last(orders').itemsTotal
                >= restaurants[Last(orders').restaurant].minimumOrder]_vars

\* the errors that report an invalid input
InvalidInputErrors == {"RestaurantIdRequired", "ItemsRequired", "InvalidItem"}

\* the error of the first item of the cart that fails a per-item check
RECURSIVE FirstItemError(_, _)
FirstItemError(items, restaurantId) ==
    IF items = <<>> THEN ""
    ELSE IF FindMenuItem(Head(items).menuItem) = None THEN "MenuItemNotFound"
    ELSE IF Unavailable(Head(items)) THEN "ItemUnavailable"
    ELSE IF Mismatched(Head(items), restaurantId) THEN "ItemRestaurantMismatch"
    ELSE FirstItemError(Tail(items), restaurantId)

\* the error of the earliest failing step of the sequence: (1) the input
\* (restaurant id, items non-empty, every quantity >= 1), (2) the restaurant
\* exists, (3) it is active and accepting orders, (4) the per-item checks,
\* (6) the minimum order; "" when every step passes
EarliestStepError(restaurantId, items) ==
    IF \/ restaurantId = ""
       \/ Len(items) = 0
       \/ \E i \in 1..Len(items) : items[i].quantity < 1
    THEN "InvalidInput"
    ELSE IF FindRestaurant(restaurantId) = None THEN "RestaurantNotFound"
    ELSE IF ~RestaurantOpen(restaurantId) THEN "RestaurantClosed"
    ELSE IF FirstItemError(items, restaurantId) # ""
    THEN FirstItemError(items, restaurantId)
    ELSE IF CartTotal(items) < restaurants[restaurantId].minimumOrder
    THEN "BelowMinimumOrder"
    ELSE ""

\* C15: place-order reports the error of the earliest failing step of the
\* sequence; in particular a cart with an item of quantity < 1 is answered
\* with an invalid-input error whatever the restaurant and the other items
\* are.
C15_EarliestStepReported ==
    \A restaurantId \in RestaurantIdInputs, items \in UnitCarts :
        LET err == PlaceResponse(restaurantId, items, "ok").err
        IN  EarliestStepError(restaurantId, items) =
                IF err \in InvalidInputErrors THEN "InvalidInput" ELSE err

\* C16: no operation partially applies its effect: a step of a handler whose
\* request is rejected (place-order failing a validation or the store write,
\* a status update with an invalid status or an unknown order, a payment
\* create-order by a non-owner or with another amount, a payment verify or
\* failed for an unknown order, a bulk update with missing fields, by a
\* user without the role or without a restaurant) leaves the order store
\* exactly as it was.
C16_RejectedLeavesStore ==
    [][orders' # orders =>
       /\ Len(orders) = 0 =>
            \A user \in Customers, restaurantId \in RestaurantIdInputs,
               items \in UnitCarts, outcome \in CreateOutcomes :
                (~Succeeded(PlaceResponse(restaurantId, items, outcome))
                    /\ PlaceOrder(user, restaurantId, items, "cod", outcome))
                   => orders' = orders
       /\ \A id \in OrderIdInputs, status \in StatusInputs :
              (~Succeeded(StatusResponse(id, status))
                  /\ UpdateOrderStatus(id, status, None, "owner1"))
                 => orders' = orders
       /\ \A user \in Users, orderIds \in SUBSET OrderIdInputs,
             status \in BulkStatusInputs :
              ((\A restaurantId \in FoundRestaurants(user) :
                    ~Succeeded(BulkResponse(user, orderIds, status, restaurantId)))
                  /\ BulkUpdate(user, orderIds, status, None))
                 => orders' = orders
       /\ \A user \in Users, orderId \in OrderIdInputs, amount \in AmountInputs,
             random \in RandomInputs, outcome \in Outcomes :
              (~Succeeded(CreateResponse(user, orderId, amount, outcome))
                  /\ PaymentCreateOrder(user, orderId, amount, random, outcome))
                 => orders' = orders
       /\ \A user \in PaymentActors, orderId \in OrderIdInputs,
             paymentId \in PaymentIdInputs :
              (~Succeeded(VerifyResponse(orderId, paymentId))
                  /\ PaymentVerify(user, orderId, paymentId))
                 => orders' = orders
       /\ \A user \in PaymentActors, orderId \in OrderIdInputs,
             outcome \in Outcomes :
              (~Succeeded(FailedResponse(orderId, outcome))
                  /\ PaymentFailed(user, orderId, None, outcome))
                 => orders' = orders]_vars

\* an order has a payment order, and a further create-order for it is
\* refused to another user and refused for another amount
C16_Witness ==
    \E id \in OrderIds :
        /\ orders[id].paymentId # None
        /\ CreateResponse("owner1", id, orders[id].totalAmount, "ok").err = "Forbidden"
        /\ CreateResponse(orders[id].customer, id, orders[id].totalAmount + 10, "ok").err
               = "AmountMismatch"
        /\ StatusResponse(id, "refunded").err = "InvalidStatus"

\* the submitted orders that belong to a restaurant of the user
OwnSubmitted(user, orderIds) ==
    {id \in OrderIds \cap orderIds : restaurants[orders[id].restaurant].userId = user}

\* C17: a successful bulk status update reports updatedCount equal to the
\* number of submitted orders of the caller's restaurant, changes exactly
\* those orders and leaves every other order (of another restaurant, or not
\* submitted) unchanged.
C17_BulkChangesOwnSubmitted ==
    /\ [](\A user \in Users, orderIds \in SUBSET OrderIdInputs,
             status \in BulkStatusInputs, restaurantId \in RestaurantIds :
              (restaurants[restaurantId].userId = user
                  /\ Succeeded(BulkResponse(user, orderIds, status, restaurantId)))
                 => BulkResponse(user, orderIds, status, restaurantId).data
                        = <<Cardinality(OwnSubmitted(user, orderIds))>>)
    /\ [][\A user \in Users, orderIds \in SUBSET OrderIdInputs,
            status \in BulkStatusInputs :
             (orders' # orders /\ BulkUpdate(user, orderIds, status, None)) =>
                /\ Len(orders') = Len(orders)
                /\ {id \in OrderIds : orders'[id] # orders[id]}
                       = OwnSubmitted(user, orderIds)
                /\ \A id \in OwnSubmitted(user, orderIds) :
                       orders'[id].status = status]_vars

\* two orders of two restaurants: one went through a bulk update, the other
\* is as it was placed
C17_Witness ==
    \E a \in OrderIds, b \in OrderIds :
        /\ orders[a].restaurant # orders[b].restaurant
        /\ Last(orders[a].tracking).message = BulkMsg("delivered")
        /\ orders[a].status = "delivered"
        /\ Len(orders[b].tracking) = 1

\* the line items with their snapshots, and the pricing fields
SnapshotFields == {"items", "itemsTotal", "deliveryFee", "taxes", "totalAmount"}

\* C18: the snapshots of a placed order are never recomputed: a step that
\* changes the catalog (a menu item's name, price, discountedPrice,
\* availability or restaurant; a restaurant's deliveryFee, minimumOrder or
\* isAcceptingOrders) removes no order and leaves the line items, price and
\* name snapshots, itemsTotal, deliveryFee, taxes and totalAmount of every
\* stored order unchanged.
C18_SnapshotsKept ==
    [][(menuItems' # menuItems \/ restaurants' # restaurants) =>
          /\ Len(orders') = Len(orders)
          /\ \A id \in OrderIds : \A f \in SnapshotFields :
                 orders'[id][f] = orders[id][f]]_vars

\* a stored order holds a price snapshot that differs from the price the
\* menu item has now
C18_Witness ==
    \E id \in OrderIds : \E k \in 1..Len(orders[id].items) :
        /\ orders[id].items[k].price
               # ItemPrice(menuItems[orders[id].items[k].menuItem])
        /\ orders[id].itemsTotal = orders[id].items[k].price * orders[id].items[k].quantity

\* C19: no two stored orders have the same orderNumber, also when two
\* place-order requests overlap and both take the same clock value and the
\* same order count before either order is written.
C19_OrderNumberUnique ==
    \A a \in OrderIds, b \in OrderIds :
        orders[a].orderNumber = orders[b].orderNumber => a = b

\* two orders are stored, and a request in flight that read the count
\* before either was written will be given the order number of one of them
C19_Witness ==
    /\ Len(orders) = 2
    /\ \E k \in 1..Len(inflight) :
          /\ inflight[k].count = 0
          /\ OrderNumber(now, inflight[k].count) \in OrderNumbers

\* the fields no route assigns after creation
CreationFields ==
    {"orderNumber", "customer", "restaurant", "items", "itemsTotal",
     "deliveryFee", "taxes", "totalAmount", "deliveryAddress"}

\* the step is a single or bulk status update, or a payment verify
StatusTransitionStep ==
    \/ \E id \in OrderIdInputs, status \in StatusInputs,
          message \in MessageInputs, user \in Users :
           UpdateOrderStatus(id, status, message, user)
    \/ \E user \in PaymentActors, orderId \in OrderIdInputs,
          paymentId \in PaymentIdInputs :
           PaymentVerify(user, orderId, paymentId)
    \/ \E user \in Users, orderIds \in SUBSET OrderIdInputs,
          status \in BulkStatusInputs :
           BulkUpdate(user, orderIds, status, None)

\* the step is a payment failed
PaymentFailedStep ==
    \E user \in PaymentActors, orderId \in OrderIdInputs, outcome \in Outcomes :
        PaymentFailed(user, orderId, None, outcome)

\* the step is one of the payment routes
PaymentStep ==
    \/ PaymentFailedStep
    \/ \E user \in PaymentActors, orderId \in OrderIdInputs,
          paymentId \in PaymentIdInputs :
           PaymentVerify(user, orderId, paymentId)
    \/ \E user \in Users, orderId \in OrderIdInputs, amount \in AmountInputs,
          random \in RandomInputs, outcome \in Outcomes :
           PaymentCreateOrder(user, orderId, amount, random, outcome)

\* no order is removed; no field set at creation changes; paymentStatus and
\* paymentId change only in a step of a payment route
FrameOfOrders ==
    /\ Len(orders') >= Len(orders)
    /\ \A id \in OrderIds :
          /\ \A f \in CreationFields : orders'[id][f] = orders[id][f]
          /\ (\/ orders'[id].paymentStatus # orders[id].paymentStatus
              \/ orders'[id].paymentId # orders[id].paymentId) => PaymentStep

\* C20, as stated: no order is removed, no field set at creation changes,
\* paymentStatus and paymentId change only through the payment routes, and
\* status, tracking and actualDeliveryTime change only through a status
\* transition (single or bulk update, or the Paid auto-confirm).
C20_OnlyStatusTransitionsTrack ==
    [][/\ FrameOfOrders
       /\ \A id \in OrderIds :
             (\/ orders'[id].status # orders[id].status
              \/ orders'[id].tracking # orders[id].tracking
              \/ orders'[id].actualDeliveryTime # orders[id].actualDeliveryTime)
                => StatusTransitionStep]_vars

\* C20, amended: as stated, except that the tracking history also grows in a
\* payment failed step, which appends one entry and changes neither the
\* status nor actualDeliveryTime.
C20_TwoPathsOnly ==
    [][/\ FrameOfOrders
       /\ \A id \in OrderIds :
             /\ (\/ orders'[id].status # orders[id].status
                 \/ orders'[id].actualDeliveryTime # orders[id].actualDeliveryTime)
                   => StatusTransitionStep
             /\ orders'[id].tracking # orders[id].tracking
                   => (StatusTransitionStep \/ PaymentFailedStep)]_vars

\* an order that was paid and then delivered has the total it was created
\* with
C20_Witness ==
    \E id \in OrderIds :
        /\ orders[id].paymentStatus = "paid"
        /\ orders[id].status = "delivered"
        /\ Len(orders[id].tracking) = 3
        /\ orders[id].totalAmount
               = orders[id].itemsTotal + orders[id].deliveryFee + orders[id].taxes

\* C21: get-order answers with the order's data only to the order's customer
\* and to an administrator; every other user, the owner of the order's
\* restaurant included, is answered access denied, without data.
C21_OnlyCustomerOrAdminReads ==
    \A user \in Readers, id \in OrderIds :
        IF orders[id].customer = user \/ Role(user) = "admin"
        THEN GetOrderResponse(user, id) = ResponseData(200, "", orders[id])
        ELSE GetOrderResponse(user, id) = Response(403, "AccessDenied")

\* an order that its customer reads and that the owner of its restaurant and
\* another customer are denied
C21_Witness ==
    \E id \in OrderIds :
        /\ restaurants[orders[id].restaurant].userId = "owner1"
        /\ GetOrderResponse("owner1", id).code = 403
        /\ GetOrderResponse("cust2", id).data = <<>>
        /\ GetOrderResponse("cust1", id).data = orders[id]
        /\ GetOrderResponse("admin1", id).code = 200

\* the sockets subscribed to the order's customer channel or to its
\* restaurant channel
Subscribers(order) ==
    {c \in Connected :
        \/ CustomerRoom(order.customer) \in sockets[c].rooms
        \/ RestaurantsRoom(order.restaurant) \in sockets[c].rooms}

\* C22: a step that creates an order or appends a status change to one
\* delivers exactly one event to every socket subscribed to the order's
\* customer channel or restaurant channel, and none to any other socket.
C22_EventsReachChannels ==
    [][\A id \in 1..Len(orders') :
          (id \notin OrderIds \/ orders'[id].tracking # orders[id].tracking) =>
              \A c \in Conns :
                  IF c \in Subscribers(orders'[id])
                  THEN Len(sockets'[c].received) = Len(sockets[c].received) + 1
                  ELSE sockets'[c].received = sockets[c].received]_vars

\* C23: a test notification that names a target, or has a type other than
\* broadcast, or comes from a user who is no administrator, reaches only the
\* sockets of its target channel.
C23_NoUnmarkedBroadcast ==
    [][\A user \in Readers, body \in NotificationBodies :
          (/\ TestNotification(user, body)
           /\ \/ Role(user) # "admin"
              \/ body.targetId # None
              \/ body.type \notin {None, Some("broadcast")})
            => \A c \in Conns :
                  sockets'[c].received # sockets[c].received =>
                      /\ body.targetId # None
                      /\ body.targetId[1] \in sockets[c].rooms]_vars

\* C24: every socket is in at most one of the customer, restaurant and
\* admin channels, and a socket that is in one stays in that one while it
\* is connected.
C24_OneIdentityChannel ==
    /\ [](\A c \in Conns : Cardinality(sockets[c].rooms) <= 1)
    /\ [][\A c \in Conns :
             (sockets[c].rooms # {} /\ sockets'[c].connected)
                => sockets'[c].rooms = sockets[c].rooms]_vars

\* C25: every save of an interleaved status update appends its entry to
\* the history as stored at that moment, so that no entry appended in
\* between is lost, and leaves the order's status equal to the status of
\* the last entry.
C25_ConcurrentAppendsKept ==
    [][\A k \in 1..Len(inflight) :
          StatusCommit(k) =>
              LET id == inflight[k].id
              IN  /\ orders'[id].tracking
                        = Append(orders[id].tracking, inflight[k].entry)
                  /\ orders'[id].status = Last(orders'[id].tracking).status]_vars

\* C26: every menu item that has a discountedPrice has it strictly below
\* its price.
C26_DiscountBelowPrice ==
    \A m \in MenuIds :
        menuItems[m].discountedPrice # None
            => menuItems[m].discountedPrice[1] < menuItems[m].price

\* C27: every user owns at most one restaurant, and a registration by a
\* user who owns one is answered as a conflict.
C27_OneRestaurantPerUser ==
    \A user \in Registrants \cup Users :
        /\ Cardinality(OwnedBy(user)) <= 1
        /\ \A body \in RegisterBodies :
              (OwnedBy(user) # {} /\ body.name # None)
                 => ~Succeeded(RegisterResponse(user, body))

\* the user owns the order's restaurant or is an administrator
HasRightsOver(user, order) ==
    restaurants[order.restaurant].userId = user \/ Role(user) = "admin"

\* C28: a status update of an order by a user who neither owns the order's
\* restaurant nor is an administrator is answered Forbidden, and no such
\* request changes the order.
C28_StrangerForbidden ==
    /\ [](\A user \in Users, id \in OrderIds, status \in validStatuses :
             ~HasRightsOver(user, orders[id])
                => StatusResponse(id, status) = Response(403, "Forbidden"))
    /\ [][\A user \in Users, id \in OrderIds, status \in StatusInputs,
            message \in MessageInputs :
             (~HasRightsOver(user, orders[id])
                 /\ UpdateOrderStatus(id, status, message, user))
                => orders' = orders]_vars

\* C29: a place-order request that passes the handler's validation does not
\* fail, and the step that stores its order adds exactly one order, with
\* status placed, paymentStatus pending, an order number, and a history of
\* one entry, placed, by the customer.
C29_ValidRequestPersists ==
    /\ [](\A restaurantId \in RestaurantIds, items \in SmallCarts,
            outcome \in CreateOutcomes :
             Succeeded(PlaceResponse(restaurantId, items, "ok"))
                => PlaceResponse(restaurantId, items, outcome) = Response(201, ""))
    /\ [][Len(orders') > Len(orders) =>
             /\ Len(orders') = Len(orders) + 1
             /\ SubSeq(orders', 1, Len(orders)) = orders
             /\ Last(orders').status = "placed"
             /\ Last(orders').paymentStatus = "pending"
             /\ Last(orders').orderNumber = OrderNumber(now, Len(orders))
             /\ Len(Last(orders').tracking) = 1
             /\ Last(orders').tracking[1].status = "placed"
             /\ Last(orders').tracking[1].updatedBy = Last(orders').customer]_vars

\* the sum over an order's lines of stored price times stored quantity
RECURSIVE LinesTotal(_)
LinesTotal(orderItems) ==
    IF orderItems = <<>> THEN 0
    ELSE Head(orderItems).price * Head(orderItems).quantity
             + LinesTotal(Tail(orderItems))

\* C30: the itemsTotal of every stored order is the sum over its lines of
\* the stored price times the quantity, rounded once, at the total.
C30_ItemsTotalRoundedOnce ==
    \A id \in OrderIds :
        orders[id].itemsTotal = 10 * RoundDiv(LinesTotal(orders[id].items), 10)

\* an order of two lines whose total differs from the sum of its rounded
\* lines
C30_Witness ==
    \E id \in OrderIds :
        /\ Len(orders[id].items) = 2
        /\ orders[id].itemsTotal # RoundedLinesTotal(orders[id].items)
        /\ orders[id].itemsTotal # LinesTotal(orders[id].items)

\* C31: every line of an order, when the order is created, has as its price
\* the menu item's discountedPrice when the item has one, a discountedPrice
\* of 0 included, and the item's price when it has none.
C31_DiscountedPriceSnapshot ==
    [][\A items \in CreatedItems :
          \A k \in 1..Len(items) :
              LET menuItem == menuItems[items[k].menuItem]
              IN  items[k].price =
                      IF menuItem.discountedPrice # None
                      THEN menuItem.discountedPrice[1]
                      ELSE menuItem.price]_vars

\* C32: every order, when it is created, has as its deliveryFee the
\* deliveryFee of its restaurant, also when a settings update has set that
\* fee to 0.
C32_DeliveryFeePassedThrough ==
    [][Len(orders') > Len(orders) =>
          Last(orders').deliveryFee
              = restaurants[Last(orders').restaurant].deliveryFee]_vars

\* C33: the taxes of every stored order are 5% of its stored itemsTotal,
\* rounded to the nearest whole unit.
C33_TaxesOfStoredTotal ==
    \A id \in OrderIds :
        orders[id].taxes = 10 * RoundDiv(5 * orders[id].itemsTotal, 1000)

\* carts of one or two items, each in quantity 1
ValidCarts ==
    {items \in UnitCarts :
        Len(items) > 0 /\ \A i \in 1..Len(items) : items[i].quantity = 1}

\* C34: at an open restaurant, a cart of items in valid quantities is
\* answered with the error of its first failing item, and for an item the
\* checks are, in this order: it exists (not found), it is available
\* (unavailable), it belongs to the restaurant (mismatch).
C34_ItemChecksInOrder ==
    \A restaurantId \in RestaurantIds, items \in ValidCarts,
       outcome \in CreateOutcomes :
        (RestaurantOpen(restaurantId) /\ FirstItemError(items, restaurantId) # "")
            => PlaceResponse(restaurantId, items, outcome).err
                   = FirstItemError(items, restaurantId)

\* an item of another restaurant that was made unavailable is answered
\* with the unavailable error, also behind an item that passes, and a
\* missing item before it with the not-found error
C34_Witness ==
    \E m \in MenuIds, first \in MenuIds :
        LET restaurantId == menuItems[first].restaurantId
            line(id) == [menuItem |-> id, quantity |-> 1]
        IN  /\ RestaurantOpen(restaurantId)
            /\ ItemOk(line(first), restaurantId)
            /\ Unavailable(line(m))
            /\ Mismatched(line(m), restaurantId)
            /\ PlaceResponse(restaurantId, <<line(first), line(m)>>, "ok").err
                   = "ItemUnavailable"
            /\ PlaceResponse(restaurantId, <<line("mX"), line(m)>>, "ok").err
                   = "MenuItemNotFound"


\* C35: a place-order request that names a restaurant and carries a
\* non-empty cart is answered with the not-found error when the restaurant
\* is unknown and with the restaurant-closed error when it is not active or
\* not accepting orders, whatever the cart holds (no menu item is read);
\* and no order is created at a restaurant that is closed.
C35_ClosedRestaurantRejected ==
    /\ [](\A restaurantId \in RestaurantIdInputs \ {""}, items \in UnitCarts,
            outcome \in CreateOutcomes :
             Len(items) > 0 =>
                 /\ FindRestaurant(restaurantId) = None
                       => PlaceResponse(restaurantId, items, outcome)
                              = Response(404, "RestaurantNotFound")
                 /\ (FindRestaurant(restaurantId) # None
                        /\ ~RestaurantOpen(restaurantId))
                       => PlaceResponse(restaurantId, items, outcome)
                              = Response(400, "RestaurantClosed"))
    /\ [][Len(orders') > Len(orders)
             => RestaurantOpen(Last(orders').restaurant)]_vars

\* a restaurant has stopped accepting orders, and a cart with a missing
\* item and a cart that would otherwise be accepted are both answered
\* with the restaurant-closed error
C35_Witness ==
    \E restaurantId \in RestaurantIds, m \in MenuIds :
        LET line(id) == [menuItem |-> id, quantity |-> 1]
        IN  /\ ~restaurants[restaurantId].isAcceptingOrders
            /\ ItemOk(line(m), restaurantId)
            /\ menuItems[m].price >= restaurants[restaurantId].minimumOrder
            /\ PlaceResponse(restaurantId, <<line(m)>>, "ok").err
                   = "RestaurantClosed"
            /\ PlaceResponse(restaurantId, <<line("mX")>>, "ok").err
                   = "RestaurantClosed"
            /\ PlaceResponse("rX", <<line(m)>>, "ok").err = "RestaurantNotFound"


\* the largest preparation time among the menu items of the lines
MaxPreparationOf(items) ==
    CHOOSE t \in {menuItems[items[k].menuItem].preparationTime : k \in 1..Len(items)} :
        \A k \in 1..Len(items) : menuItems[items[k].menuItem].preparationTime <= t

\* C36: the estimated delivery time of a placed order, minus the time of
\* placement, is the largest preparation time among the cart's menu items
\* plus the restaurant's estimated delivery time, for every value of the two
\* fields, 0 included.
C36_EstimateFromStoredTimes ==
    [][Len(orders') > Len(orders) =>
          Last(orders').estimatedDeliveryTime - now
              = MaxPreparationOf(Last(orders').items)
                    + restaurants[Last(orders').restaurant].estimatedDeliveryTime]_vars


\* the payment state of an order and what the payment routes write with it
PaymentFields(order) ==
    <<order.paymentStatus, order.paymentId, order.status, order.tracking>>

\* C37: a payment create-order, verify or failed request of a user who is
\* not the order's customer leaves the order's paymentStatus, paymentId,
\* status and tracking unchanged.
C37_OnlyCustomerChangesPayment ==
    [][orders' # orders =>
          \A user \in Users, orderId \in OrderIds :
              (user # orders[orderId].customer
                 /\ \/ \E amount \in AmountInputs, random \in RandomInputs :
                          PaymentCreateOrder(user, orderId, amount, random, "ok")
                    \/ \E paymentId \in PaymentIdInputs :
                          PaymentVerify(user, orderId, paymentId)
                    \/ PaymentFailed(user, orderId, None, "ok"))
              => PaymentFields(orders'[orderId]) = PaymentFields(orders[orderId])]_vars


\* C38: once the paymentStatus of an order is paid it stays paid and its
\* paymentId stays the one the verify step recorded: no later create-order,
\* verify or failed request changes either.
C38_PaidStaysPaid ==
    [][orders' # orders =>
          \A id \in OrderIds :
              orders[id].paymentStatus = "paid"
                  => /\ orders'[id].paymentStatus = "paid"
                     /\ orders'[id].paymentId = orders[id].paymentId]_vars

====
